---- MODULE Spec2Model ----
(***************************************************************************)
(* Capture Session Controller of sandbox-getusermedia-resolution.          *)
(*                                                                         *)
(* The repository holds four revisions of the CameraApp component:         *)
(*   "basic"   src/src/App.tsx        lines   1..268                       *)
(*   "range"   src/src/App.tsx        lines 270..950                       *)
(*   "static"  src/unnamed/part_000   lines   1..371                       *)
(*   "cap"     src/unnamed/part_000   lines 373..1568                      *)
(* The variable `variant` fixes which revision a behaviour runs.           *)
(*                                                                         *)
(* Encoding of JavaScript values:                                          *)
(*   - an object is a function from its keys to its values, a key that is  *)
(*     absent (or undefined) is not in the DOMAIN;                         *)
(*   - a bare constraint value v (width: 640) is [bare |-> v];             *)
(*   - the booleans true/false in the place of a constraint object         *)
(*     (video: true, audio: false) are [bool |-> TRUE/FALSE];              *)
(*   - null is the string "null"; a boolean|null state holds               *)
(*     "true", "false" or "null";                                          *)
(*   - Number(text) of a text that is no number is NaN.                    *)
(***************************************************************************)
EXTENDS Integers, Sequences, FiniteSets, TLC

\* ------------------------------------------------------------------ bounds
MaxStarts == 3
MaxFetches == 2
MaxConfigFetches == 1
MaxIdentityStarts == 2
MaxReselectStarts == 2
MaxReadoutStarts == 2
MaxCustomStarts == 1

\* ------------------------------------------------------- program constants
SettleDelay == 1000
DefaultWidth == 640
DefaultHeight == 480

TickMs == SettleDelay \div 2
NaN == 0 - 1
Null == "null"
TypeErrorMsg == "Cannot read properties of undefined"
UnsupportedMsg == "getUserMedia is not supported in this browser."

Variants == {"basic", "range", "static", "cap"}

\* The hardware of the platform the page runs on.
Cameras == {"cam1", "cam2"}
Microphones == {"mic1"}

Min2(a, b) == IF a < b THEN a ELSE b
Bare(v) == [bare |-> v]
BoolC(b) == [bool |-> b]
EmptyObj == <<>>
Has(obj, key) == key \in DOMAIN obj

\* --------------------------------------------------------------- variables
VARIABLES
    variant,              \* which revision of CameraApp runs
    apiPresent,           \* navigator.mediaDevices && navigator.mediaDevices.getUserMedia
    resolution,           \* useState({ width: 640, height: 480 })
    useMaxResolution,
    maxResolution,
    useMinResolution,
    minResolution,
    facingMode,
    availableFacingModes, \* "range" only
    widthRange,           \* "range" only
    heightRange,          \* "range" only
    selectedVideoDevice,  \* selectedDevice in "basic"
    selectedAudioDevice,
    useExactDeviceId,     \* "cap" only
    useExactAudioDeviceId,
    customConstraints,    \* "cap" only
    activeConstraintKeys, \* "cap" only
    deviceDetails,        \* list of { deviceInfo, capabilities }
    videoDevices,
    audioDevices,
    loadingDevices,
    fetches,              \* the fetchDevices calls, in the order they were made
    srcObject,            \* videoRef.current.srcObject: 0 (null) or an index of streams
    streams,              \* every MediaStream the platform has handed out
    starts,               \* the startStream calls, in the order they were made
    error,
    requestedConstraints, \* "static" only
    actualDeviceId,       \* "cap" only
    deviceIdMatch,        \* "cap" only
    stopReturn,           \* what the latest stopStream call returned
    stopRun,              \* what the latest Stop clicks returned (at most two), those
                          \* since a startStream call last returned
    trackCorrespondences, \* useState({}): the snapshot setTrackCorrespondences stored
    actualResolution      \* useState({ width: 0, height: 0 })

selectionVars == <<resolution, useMaxResolution, maxResolution, useMinResolution,
                   minResolution, facingMode, availableFacingModes,
                   widthRange, heightRange,
                   selectedVideoDevice, selectedAudioDevice, useExactDeviceId,
                   useExactAudioDeviceId, customConstraints, activeConstraintKeys>>
deviceVars == <<deviceDetails, videoDevices, audioDevices, loadingDevices, fetches>>
sessionVars == <<srcObject, streams, starts, requestedConstraints, actualDeviceId,
                 deviceIdMatch, stopReturn, stopRun>>
readoutVars == <<trackCorrespondences, actualResolution>>
vars == <<variant, apiPresent, selectionVars, deviceVars, sessionVars, error,
          readoutVars>>

\* ------------------------------------------------------------ the platform
\* InputDeviceInfo.getCapabilities() of the hardware. Object.keys lists the
\* keys of a capabilities object in the order of CapKeyOrder.
CapKeyOrder == <<"deviceId", "facingMode", "frameRate", "groupId", "height", "width">>

CameraCaps(id, modes) ==
    [deviceId |-> id, groupId |-> "g1", facingMode |-> modes,
     frameRate |-> [min |-> 1, max |-> 60],
     height |-> [min |-> 1, max |-> 1080],
     width |-> [min |-> 1, max |-> 1920]]

HardwareCaps(id) ==
    CASE id = "cam1" -> CameraCaps("cam1", <<"user">>)
      [] id = "cam2" -> CameraCaps("cam2", <<"environment">>)
      [] OTHER -> [deviceId |-> id, groupId |-> "g1"]

KindOf(id) == IF id \in Cameras THEN "videoinput" ELSE "audioinput"

\* One element of the list enumerateDevices() resolves with, already paired
\* with what deviceInfo.getCapabilities() gives (hasCaps is FALSE where the
\* device information is no InputDeviceInfo: capabilities stays undefined).
DeviceInfo(id, withCaps) ==
    [deviceId |-> id, kind |-> KindOf(id), hasCaps |-> withCaps,
     capabilities |-> IF withCaps THEN HardwareCaps(id) ELSE EmptyObj]

\* The lists enumerateDevices() may resolve with.
Enumerations ==
    { <<DeviceInfo("cam1", TRUE), DeviceInfo("cam2", TRUE), DeviceInfo("mic1", TRUE)>>,
      <<DeviceInfo("cam1", FALSE), DeviceInfo("mic1", FALSE)>>,
      <<>> }

\* What a rejected platform promise carries: an Error with its message, which
\* the platform may leave empty (the message of a DOMException defaults to ""),
\* or a value that is no Error (an OverconstrainedError where the browser does
\* not derive it from DOMException).
PermissionDenied == [isError |-> TRUE, message |-> "Permission denied"]

Rejections ==
    { PermissionDenied,
      [isError |-> TRUE, message |-> "Requested device not found"],
      [isError |-> TRUE, message |-> ""],
      [isError |-> FALSE, message |-> "not an Error"] }

FilterKind(list, kind) == SelectSeq(list, LAMBDA d : d.kind = kind)
Ids(list) == {list[k].deviceId : k \in 1..Len(list)}

\* deviceDetails.find((detail) => detail.deviceInfo.deviceId === deviceId)
FindDetail(details, deviceId) ==
    LET hits == {k \in 1..Len(details) : details[k].deviceId = deviceId}
    IN IF hits = {} THEN 0 ELSE CHOOSE k \in hits : \A j \in hits : k <= j

\* getSelectedDeviceCapabilities / getDeviceCapabilities:
\* selectedDevice?.capabilities || null, as [found, caps].
DeviceCapabilities(details, deviceId) ==
    LET k == FindDetail(details, deviceId)
    IN IF deviceId = "" \/ k = 0 \/ ~details[k].hasCaps
       THEN [found |-> FALSE, caps |-> EmptyObj]
       ELSE [found |-> TRUE, caps |-> details[k].capabilities]

SeqToSet(q) == {q[k] : k \in 1..Len(q)}

\* -------------------------------------------------- constraint construction
\* The state a startStream call reads: the values of the render whose click
\* handler runs, which the handler keeps across its awaits.
Closure ==
    [resolution |-> resolution,
     useMaxResolution |-> useMaxResolution, maxResolution |-> maxResolution,
     useMinResolution |-> useMinResolution, minResolution |-> minResolution,
     facingMode |-> facingMode,
     selectedVideoDevice |-> selectedVideoDevice,
     selectedAudioDevice |-> selectedAudioDevice,
     useExactDeviceId |-> useExactDeviceId,
     useExactAudioDeviceId |-> useExactAudioDeviceId,
     customConstraints |-> customConstraints,
     activeConstraintKeys |-> activeConstraintKeys,
     deviceDetails |-> deviceDetails]

\* RangedDimension with the two toggles taken for each other.
RangedDimensionSwappedToggles(ideal, useMax, max, useMin, min) ==
    [ideal |-> ideal]
      @@ (IF useMin THEN [max |-> max] ELSE EmptyObj)
      @@ (IF useMax THEN [min |-> min] ELSE EmptyObj)

\* { ideal: ideal, ...(useMax ? { max } : {}), ...(useMin ? { min } : {}) }
RangedDimension(ideal, useMax, max, useMin, min) ==
    [ideal |-> ideal]
      @@ (IF useMax THEN [max |-> max] ELSE EmptyObj)
      @@ (IF useMin THEN [min |-> min] ELSE EmptyObj)

\* ResolutionConstraints with width and height taken for each other where no
\* toggle is on.
ResolutionConstraintsSwapped(c) ==
    IF c.useMaxResolution \/ c.useMinResolution
    THEN [width |-> RangedDimension(c.resolution.width,
                        c.useMaxResolution, c.maxResolution.width,
                        c.useMinResolution, c.minResolution.width),
          height |-> RangedDimension(c.resolution.height,
                        c.useMaxResolution, c.maxResolution.height,
                        c.useMinResolution, c.minResolution.height)]
    ELSE [width |-> Bare(c.resolution.height), height |-> Bare(c.resolution.width)]

\* The width and height entries of the video constraints.
ResolutionConstraints(c) ==
    IF c.useMaxResolution \/ c.useMinResolution
    THEN [width |-> RangedDimension(c.resolution.width,
                        c.useMaxResolution, c.maxResolution.width,
                        c.useMinResolution, c.minResolution.width),
          height |-> RangedDimension(c.resolution.height,
                        c.useMaxResolution, c.maxResolution.height,
                        c.useMinResolution, c.minResolution.height)]
    ELSE [width |-> Bare(c.resolution.width), height |-> Bare(c.resolution.height)]

\* "static": ...(facingMode && { facingMode: { exact: facingMode } })
FacingModeStatic(c) ==
    IF c.facingMode # "" THEN [facingMode |-> [exact |-> c.facingMode]] ELSE EmptyObj

\* "range": facingModeConstraint
FacingModeRange(c) ==
    LET deviceCapabilities == DeviceCapabilities(c.deviceDetails, c.selectedVideoDevice)
    IN IF /\ c.facingMode # ""
          /\ deviceCapabilities.found
          /\ Has(deviceCapabilities.caps, "facingMode")
          /\ c.facingMode \in SeqToSet(deviceCapabilities.caps.facingMode)
       THEN [facingMode |-> Bare(c.facingMode)]
       ELSE EmptyObj

FacingModeConstraint(v, c) ==
    CASE v = "static" -> FacingModeStatic(c)
      [] v = "range" -> FacingModeRange(c)
      [] OTHER -> EmptyObj

\* ...(selectedVideoDevice && { deviceId: { exact: selectedVideoDevice } }),
\* a key of the MediaStreamConstraints object itself, next to video.
TopLevelDeviceId(c) ==
    IF c.selectedVideoDevice # ""
    THEN [deviceId |-> [exact |-> c.selectedVideoDevice]]
    ELSE EmptyObj

\* The constraints object startStream builds inline ("basic", "static", "range").
InlineConstraints(v, c) ==
    TopLevelDeviceId(c)
      @@ [video |-> FacingModeConstraint(v, c) @@ ResolutionConstraints(c)]

\* DeviceIdConstraint without the toggle: the id is always an exact match.
DeviceIdConstraintAlwaysExact(selected, exact) ==
    IF selected = "" THEN EmptyObj
    ELSE [deviceId |-> [exact |-> selected]]

\* "cap": videoConstraints.deviceId
DeviceIdConstraint(selected, exact) ==
    IF selected = "" THEN EmptyObj
    ELSE [deviceId |-> IF exact THEN [exact |-> selected] ELSE [ideal |-> selected]]

\* "cap": activeConstraintKeys.forEach(...)
CustomEntries(c) ==
    [key \in {k \in SeqToSet(c.activeConstraintKeys) : Has(c.customConstraints, k)}
        |-> c.customConstraints[key]]

\* "cap": buildConstraints
buildConstraints(c) ==
    LET videoConstraints ==
            CustomEntries(c) @@ DeviceIdConstraint(c.selectedVideoDevice, c.useExactDeviceId)
        audioConstraints ==
            IF c.selectedAudioDevice # ""
            THEN DeviceIdConstraint(c.selectedAudioDevice, c.useExactAudioDeviceId)
            ELSE BoolC(FALSE)
    IN [video |-> IF DOMAIN videoConstraints = {} THEN BoolC(TRUE) ELSE videoConstraints,
        audio |-> audioConstraints]

\* The request a startStream call of revision v submits from closure c.
BuildRequest(v, c) ==
    IF v = "cap" THEN buildConstraints(c) ELSE InlineConstraints(v, c)

\* The video constraints of a request, {} where it asks for video: true.
VideoOf(req) == IF Has(req.video, "bool") THEN EmptyObj ELSE req.video

\* ------------------------------------------------ capability-driven effects
InitialCustomConstraints ==
    [width |-> [ideal |-> DefaultWidth], height |-> [ideal |-> DefaultHeight]]

\* "cap": Object.keys(capabilities) without deviceId and groupId, with width,
\* height and facingMode moved to the front.
ActiveKeysOf(capabilities) ==
    LET keys == SelectSeq(CapKeyOrder,
                    LAMBDA k : Has(capabilities, k) /\ k # "deviceId" /\ k # "groupId")
        priorityKeys == <<"width", "height", "facingMode">>
    IN SelectSeq(priorityKeys, LAMBDA k : k \in SeqToSet(keys))
         \o SelectSeq(keys, LAMBDA k : k \notin SeqToSet(priorityKeys))

\* "cap": initialConstraints of the effect, from the capabilities, the active
\* keys and the custom constraints of the render the effect runs in.
InitialConstraintsOf(capabilities, keys, custom) ==
    LET has(k) == k \in SeqToSet(keys)
        widthPart ==
            IF ~has("width") THEN EmptyObj
            ELSE IF Has(custom, "width") THEN [width |-> custom.width]
            ELSE [width |-> [ideal |-> DefaultWidth]]
        heightPart ==
            IF ~has("height") THEN EmptyObj
            ELSE IF Has(custom, "height") THEN [height |-> custom.height]
            ELSE [height |-> [ideal |-> DefaultHeight]]
        facingPart ==
            IF ~has("facingMode") THEN EmptyObj
            ELSE IF Has(custom, "facingMode") THEN [facingMode |-> custom.facingMode]
            ELSE IF Len(capabilities.facingMode) > 0
                 THEN [facingMode |-> [ideal |-> capabilities.facingMode[1]]]
                 ELSE EmptyObj
    IN widthPart @@ heightPart @@ facingPart

\* "cap": the effect on [selectedVideoDevice, deviceDetails, customConstraints.width,
\* customConstraints.height], as the pair it leaves in activeConstraintKeys and
\* customConstraints.
CapabilityEffect(selected, details, keys, custom) ==
    LET capabilities == DeviceCapabilities(details, selected)
    IN IF selected = "" THEN [keys |-> keys, custom |-> custom]
       ELSE IF capabilities.found
       THEN [keys |-> ActiveKeysOf(capabilities.caps),
             custom |-> InitialConstraintsOf(capabilities.caps,
                            ActiveKeysOf(capabilities.caps), custom)]
       ELSE [keys |-> <<>>, custom |-> InitialCustomConstraints]

\* "range": the { min?, max? } updateDeviceCapabilitiesOptions keeps of a
\* capabilities range.
RangeOf(capabilities, key) ==
    IF Has(capabilities, key) THEN capabilities[key] ELSE EmptyObj

\* An updateDeviceCapabilitiesOptions that never clears the facing mode.
updateDeviceCapabilitiesOptionsKeepsMode(deviceId, details, mode) ==
    LET capabilities == DeviceCapabilities(details, deviceId)
        caps == capabilities.caps
    IN IF deviceId = "" \/ ~capabilities.found
       THEN [modes |-> <<>>, facingMode |-> mode,
             widthRange |-> EmptyObj, heightRange |-> EmptyObj]
       ELSE [modes |-> IF Has(caps, "facingMode") THEN caps.facingMode ELSE <<>>,
             facingMode |-> mode,
             widthRange |-> RangeOf(caps, "width"),
             heightRange |-> RangeOf(caps, "height")]

\* "range": updateDeviceCapabilitiesOptions, as what it leaves in
\* availableFacingModes, facingMode, widthRange and heightRange.
updateDeviceCapabilitiesOptions(deviceId, details, mode) ==
    LET capabilities == DeviceCapabilities(details, deviceId)
        caps == capabilities.caps
    IN IF deviceId = "" \/ ~capabilities.found
       THEN [modes |-> <<>>, facingMode |-> "",
             widthRange |-> EmptyObj, heightRange |-> EmptyObj]
       ELSE [modes |-> IF Has(caps, "facingMode") THEN caps.facingMode ELSE <<>>,
             facingMode |-> IF /\ Has(caps, "facingMode")
                               /\ (mode = "" \/ mode \in SeqToSet(caps.facingMode))
                            THEN mode ELSE "",
             widthRange |-> RangeOf(caps, "width"),
             heightRange |-> RangeOf(caps, "height")]

\* ------------------------------------------------------------------- Init
\* "basic": the fetchDevices call of the mount effect, awaiting enumerateDevices().
MountFetch == [pc |-> "enum", stream |-> 0]

Init ==
    /\ variant \in Variants
    /\ apiPresent \in BOOLEAN
    /\ resolution = [width |-> DefaultWidth, height |-> DefaultHeight]
    /\ useMaxResolution = FALSE
    /\ maxResolution = [width |-> 0, height |-> 0]
    /\ useMinResolution = FALSE
    /\ minResolution = [width |-> 0, height |-> 0]
    /\ facingMode = ""
    /\ availableFacingModes = <<>>
    /\ widthRange = EmptyObj
    /\ heightRange = EmptyObj
    /\ selectedVideoDevice = ""
    /\ selectedAudioDevice = ""
    /\ useExactDeviceId = TRUE
    /\ useExactAudioDeviceId = TRUE
    /\ customConstraints = InitialCustomConstraints
    /\ activeConstraintKeys = <<>>
    /\ deviceDetails = <<>>
    /\ videoDevices = <<>>
    /\ audioDevices = <<>>
    /\ loadingDevices = FALSE
    /\ fetches = IF variant = "basic" /\ apiPresent THEN <<MountFetch>> ELSE <<>>
    /\ srcObject = 0
    /\ streams = <<>>
    /\ starts = <<>>
    /\ error = IF variant = "basic" /\ ~apiPresent THEN TypeErrorMsg ELSE ""
    /\ requestedConstraints = EmptyObj
    /\ actualDeviceId = Null
    /\ deviceIdMatch = Null
    /\ stopReturn = "none"
    /\ stopRun = <<>>
    /\ trackCorrespondences = EmptyObj
    /\ actualResolution = [width |-> 0, height |-> 0]

\* ---------------------------------------------------------- stream lifecycle
\* stream.getTracks(), the tracks stopStream stops.
TracksToStop(stream) == stream.tracks

\* stopStream with its return true moved out of the if.
StopResultAlwaysTrue ==
    IF variant = "basic" THEN "undefined" ELSE "true"

\* What stopStream returns.
StopResult ==
    IF variant = "basic" THEN "undefined"
    ELSE IF srcObject # 0 THEN "true" ELSE "false"

\* stopStream without the reset of the device identity state.
stopStreamKeepsActualDeviceId ==
    /\ stopReturn' = StopResult
    /\ IF srcObject # 0
       THEN /\ streams' = [streams EXCEPT
                             ![srcObject].live = @ \ TracksToStop(streams[srcObject])]
            /\ srcObject' = 0
            /\ deviceIdMatch' = Null
            /\ UNCHANGED actualDeviceId
       ELSE UNCHANGED <<streams, srcObject, actualDeviceId, deviceIdMatch>>

stopStreamKeepsIdentity ==
    /\ stopReturn' = StopResult
    /\ IF srcObject # 0
       THEN /\ streams' = [streams EXCEPT
                             ![srcObject].live = @ \ TracksToStop(streams[srcObject])]
            /\ srcObject' = 0
            /\ UNCHANGED <<actualDeviceId, deviceIdMatch>>
       ELSE UNCHANGED <<streams, srcObject, actualDeviceId, deviceIdMatch>>

\* stopStream, as a part of the step of whichever handler calls it.
stopStream ==
    /\ stopReturn' = StopResult
    /\ IF srcObject # 0
       THEN /\ streams' = [streams EXCEPT
                             ![srcObject].live = @ \ TracksToStop(streams[srcObject])]
            /\ srcObject' = 0
            /\ IF variant = "cap"
               THEN actualDeviceId' = Null /\ deviceIdMatch' = Null
               ELSE UNCHANGED <<actualDeviceId, deviceIdMatch>>
       ELSE UNCHANGED <<streams, srcObject, actualDeviceId, deviceIdMatch>>

\* Whether startStream awaits the settling timer: if (stopped) await ...
NeedsDelay(stopped) == stopped

NewStart(pc, stopped, prior) ==
    [pc |-> pc, stopped |-> stopped, elapsed |-> 0, closure |-> Closure,
     req |-> IF pc = "acquiring" THEN BuildRequest(variant, Closure) ELSE EmptyObj,
     prior |-> prior, stream |-> 0, outcome |-> "pending", stopSeen |-> FALSE]

\* A startStream call that has returned: its closure is gone, what is kept is
\* how it ended.
Finished(start, outcome, stream) ==
    [start EXCEPT !.pc = "done", !.outcome = outcome, !.stream = stream,
                  !.closure = EmptyObj, !.elapsed = 0]

\* Click on Start Camera: startStream up to its first await.
StartClick ==
    /\ Len(starts) < MaxStarts
    /\ stopRun' = IF apiPresent THEN stopRun ELSE <<>>
    /\ UNCHANGED <<variant, apiPresent, readoutVars, selectionVars, deviceVars>>
    /\ IF ~apiPresent
       THEN /\ error' = UnsupportedMsg
            /\ starts' = Append(starts,
                   Finished(NewStart("done", FALSE, 0), "unsupported", 0))
            /\ UNCHANGED <<srcObject, streams, requestedConstraints, actualDeviceId,
                           deviceIdMatch, stopReturn>>
       ELSE IF variant = "basic"
       THEN /\ starts' = Append(starts, NewStart("acquiring", FALSE, srcObject))
            /\ UNCHANGED <<srcObject, streams, requestedConstraints, actualDeviceId,
                           deviceIdMatch, stopReturn, error>>
       ELSE /\ stopStream
            /\ starts' = Append(starts,
                   NewStart(IF NeedsDelay(srcObject # 0) THEN "delay" ELSE "acquiring",
                            srcObject # 0, srcObject))
            /\ requestedConstraints' =
                   IF variant = "static" /\ ~NeedsDelay(srcObject # 0)
                   THEN BuildRequest(variant, Closure) ELSE requestedConstraints
            /\ UNCHANGED error

\* Time passes for the pending settling timers.
Tick ==
    /\ \E i \in 1..Len(starts) : starts[i].pc = "delay" /\ starts[i].elapsed < SettleDelay
    /\ starts' = [i \in 1..Len(starts) |->
                    IF starts[i].pc = "delay"
                    THEN [starts[i] EXCEPT !.elapsed = Min2(@ + TickMs, SettleDelay)]
                    ELSE starts[i]]
    /\ UNCHANGED <<variant, apiPresent, readoutVars, selectionVars, deviceVars, error, srcObject,
                   streams, requestedConstraints, actualDeviceId, deviceIdMatch,
                   stopReturn, stopRun>>

\* The settling timer of start i fires: startStream builds the constraints
\* and calls getUserMedia.
DelayElapsed(i) ==
    /\ starts[i].pc = "delay"
    /\ starts[i].elapsed >= SettleDelay
    /\ starts' = [starts EXCEPT ![i].pc = "acquiring",
                                ![i].req = BuildRequest(variant, starts[i].closure)]
    /\ requestedConstraints' =
           IF variant = "static" THEN BuildRequest(variant, starts[i].closure)
           ELSE requestedConstraints
    /\ UNCHANGED <<variant, apiPresent, readoutVars, selectionVars, deviceVars, error, srcObject,
                   streams, actualDeviceId, deviceIdMatch, stopReturn, stopRun>>

\* The cameras the platform may grant a request: the one a deviceId { exact }
\* inside the video constraints names, any camera otherwise (a deviceId next to
\* video, at the top of the request, is no constraint of the video track).
GrantableCameras(req) ==
    LET video == VideoOf(req)
    IN IF Has(video, "deviceId") /\ Has(video.deviceId, "exact")
       THEN Cameras \cap {video.deviceId.exact}
       ELSE Cameras

\* The kinds of the tracks of the stream a request is granted.
TracksFor(req) ==
    {"video"} \cup (IF Has(req, "audio") /\ ~Has(req.audio, "bool") THEN {"audio"} ELSE {})

\* The match flag of a startStream that never reports a mismatch.
DeviceIdMatchOfNeverFalse(selected, trackDeviceId) ==
    IF selected # "" /\ trackDeviceId # "" THEN "true" ELSE Null

\* "cap": the match flag startStream records for a video track.
DeviceIdMatchOf(selected, trackDeviceId) ==
    IF selected # "" /\ trackDeviceId # ""
    THEN (IF selected = trackDeviceId THEN "true" ELSE "false")
    ELSE Null

\* { capabilities, constraints, settings } of one track, as the stream the
\* track belongs to, its kind and the deviceId its settings report.
TrackSnapshot(stream, kind, camera) ==
    [stream |-> stream, kind |-> kind,
     deviceId |-> IF kind = "video" THEN camera ELSE "mic1"]

\* The tracks stream.getTracks() may list last: the order of the list is not
\* defined, and the loop over it keeps what it stored for the last one.
LastTracks(tracks) == tracks

\* getUserMedia of start i resolves with a stream from camera d (d is what
\* the settings of its video track report as deviceId); startStream runs to
\* its end.
AcquireResolve(i, d) ==
    /\ starts[i].pc = "acquiring"
    /\ d \in GrantableCameras(starts[i].req)
    /\ streams' = Append(streams,
           [tracks |-> TracksFor(starts[i].req), live |-> TracksFor(starts[i].req),
            owner |-> "start"])
    /\ IF variant = "cap"
       THEN /\ actualDeviceId' = d
            /\ deviceIdMatch' = DeviceIdMatchOf(starts[i].closure.selectedVideoDevice, d)
       ELSE UNCHANGED <<actualDeviceId, deviceIdMatch>>
    /\ srcObject' = Len(streams) + 1
    /\ starts' = [starts EXCEPT ![i] = Finished(starts[i], "bound", Len(streams) + 1)]
    /\ stopRun' = <<>>
    /\ \E last \in LastTracks(TracksFor(starts[i].req)) :
           trackCorrespondences' =
               IF variant = "basic" THEN trackCorrespondences
               ELSE TrackSnapshot(Len(streams) + 1, last, d)
    /\ UNCHANGED <<variant, apiPresent, actualResolution, selectionVars, deviceVars,
                   error, requestedConstraints, stopReturn>>

\* catch (err) { if (err instanceof Error) setError(err.message) }
Caught(e, previous) == IF e.isError THEN e.message ELSE previous

\* getUserMedia of start i rejects with e.
AcquireReject(i, e) ==
    /\ starts[i].pc = "acquiring"
    /\ error' = Caught(e, error)
    /\ starts' = [starts EXCEPT
                     ![i] = Finished(starts[i], IF e.isError THEN "error" ELSE "silent", 0)]
    /\ stopRun' = <<>>
    /\ UNCHANGED <<variant, apiPresent, readoutVars, selectionVars, deviceVars, srcObject, streams,
                   requestedConstraints, actualDeviceId, deviceIdMatch, stopReturn>>

\* The latest two elements of a sequence.
LastTwo(q) == IF Len(q) > 2 THEN SubSeq(q, Len(q) - 1, Len(q)) ELSE q

\* Click on Stop Camera.
StopClick ==
    /\ stopStream
    /\ stopRun' = LastTwo(Append(stopRun, StopResult))
    /\ starts' = [i \in 1..Len(starts) |->
                    IF starts[i].pc # "done"
                    THEN [starts[i] EXCEPT !.stopSeen = TRUE] ELSE starts[i]]
    /\ UNCHANGED <<variant, apiPresent, readoutVars, selectionVars, deviceVars, error,
                   requestedConstraints>>

\* The frame sizes the sink may report as videoWidth x videoHeight.
FrameSizes == { [width |-> 640, height |-> 480], [width |-> 1280, height |-> 720] }

\* onPlay that stores the frame size as the requested resolution too.
PlayOverwritesRequest(size) ==
    /\ srcObject # 0
    /\ actualResolution' = size
    /\ resolution' = size
    /\ UNCHANGED <<variant, apiPresent, trackCorrespondences, deviceVars, sessionVars,
                   error, useMaxResolution, maxResolution, useMinResolution,
                   minResolution, facingMode, availableFacingModes, widthRange,
                   heightRange, selectedVideoDevice, selectedAudioDevice,
                   useExactDeviceId, useExactAudioDeviceId, customConstraints,
                   activeConstraintKeys>>

\* Playback begins on the video element, whose frames have the given size:
\* the onPlay handler.
Play(size) ==
    /\ srcObject # 0
    /\ actualResolution' = size
    /\ UNCHANGED <<variant, apiPresent, trackCorrespondences, selectionVars, deviceVars,
                   sessionVars, error>>

\* ---------------------------------------------------------------- discovery
\* The part of fetchDevices before its first await.
fetchDevices ==
    /\ Len(fetches) < MaxFetches
    /\ IF apiPresent
       THEN /\ loadingDevices' = TRUE
            /\ fetches' = Append(fetches, [pc |-> "gum", stream |-> 0])
            /\ UNCHANGED error
       ELSE /\ loadingDevices' = FALSE
            /\ fetches' = Append(fetches, [pc |-> "failed", stream |-> 0])
            /\ error' = TypeErrorMsg

\* Click on Reload Devices.
ReloadDevices ==
    /\ variant # "basic"
    /\ fetchDevices
    /\ UNCHANGED <<variant, apiPresent, readoutVars, selectionVars, deviceDetails, videoDevices,
                   audioDevices, sessionVars>>

\* A fetchDevicesOnce without the test of videoDevices.length.
fetchDevicesOnceAlways ==
    /\ variant # "basic"
    /\ fetchDevices
    /\ UNCHANGED <<variant, apiPresent, readoutVars, selectionVars, deviceDetails, videoDevices,
                   audioDevices, sessionVars>>

\* Click on a device select: fetchDevicesOnce.
fetchDevicesOnce ==
    /\ variant # "basic"
    /\ IF Len(videoDevices) > 0
       THEN UNCHANGED <<loadingDevices, fetches, error>>
       ELSE fetchDevices
    /\ UNCHANGED <<variant, apiPresent, readoutVars, selectionVars, deviceDetails, videoDevices,
                   audioDevices, sessionVars>>

\* The permission request getUserMedia({ video: true, audio: true }) of fetch f
\* resolves. "static" stops the tracks at once, the others after enumeration.
FetchGumResolve(f) ==
    /\ fetches[f].pc = "gum"
    /\ streams' = Append(streams,
           [tracks |-> {"audio", "video"},
            live |-> IF variant = "static" THEN {} ELSE {"audio", "video"},
            owner |-> "fetch"])
    /\ fetches' = [fetches EXCEPT ![f].pc = "enum", ![f].stream = Len(streams) + 1]
    /\ UNCHANGED <<variant, apiPresent, readoutVars, selectionVars, deviceDetails, videoDevices,
                   audioDevices, loadingDevices, error, srcObject, starts,
                   requestedConstraints, actualDeviceId, deviceIdMatch, stopReturn,
                   stopRun>>

\* The permission request of fetch f rejects with e.
FetchGumReject(f, e) ==
    /\ fetches[f].pc = "gum"
    /\ error' = Caught(e, error)
    /\ loadingDevices' = FALSE
    /\ fetches' = [fetches EXCEPT ![f].pc = "failed"]
    /\ UNCHANGED <<variant, apiPresent, readoutVars, selectionVars, deviceDetails, videoDevices,
                   audioDevices, sessionVars>>

\* The tracks of the permission stream fetch f stops once enumeration is back.
ReleasedTracks(stream) == stream.tracks

\* enumerateDevices() of fetch f resolves with list and the capabilities are
\* read: the descriptors are published and the effects on them run.
FetchEnumResolve(f, list) ==
    /\ fetches[f].pc = "enum"
    /\ fetches' = [fetches EXCEPT ![f].pc = "done"]
    /\ videoDevices' = FilterKind(list, "videoinput")
    /\ UNCHANGED <<variant, apiPresent, readoutVars, error, srcObject, starts, requestedConstraints,
                   actualDeviceId, deviceIdMatch, stopReturn, stopRun, resolution,
                   useMaxResolution, maxResolution, useMinResolution, minResolution,
                   selectedAudioDevice, useExactDeviceId, useExactAudioDeviceId>>
    /\ IF variant = "basic"
       THEN /\ selectedVideoDevice' =
                   IF Len(FilterKind(list, "videoinput")) > 0
                   THEN FilterKind(list, "videoinput")[1].deviceId
                   ELSE selectedVideoDevice
            /\ UNCHANGED <<audioDevices, deviceDetails, loadingDevices, streams>>
       ELSE /\ selectedVideoDevice' = selectedVideoDevice
            /\ audioDevices' = FilterKind(list, "audioinput")
            /\ loadingDevices' = FALSE
            /\ deviceDetails' = IF variant = "static" THEN deviceDetails ELSE list
            /\ streams' = [streams EXCEPT ![fetches[f].stream].live =
                               @ \ ReleasedTracks(streams[fetches[f].stream])]
    /\ IF variant = "cap"
       THEN LET e == CapabilityEffect(selectedVideoDevice, list,
                                      activeConstraintKeys, customConstraints)
            IN activeConstraintKeys' = e.keys /\ customConstraints' = e.custom
       ELSE UNCHANGED <<activeConstraintKeys, customConstraints>>
    /\ IF variant = "range" /\ selectedVideoDevice # ""
       THEN LET u == updateDeviceCapabilitiesOptions(selectedVideoDevice, list, facingMode)
            IN /\ availableFacingModes' = u.modes
               /\ facingMode' = u.facingMode
               /\ widthRange' = u.widthRange
               /\ heightRange' = u.heightRange
       ELSE UNCHANGED <<availableFacingModes, facingMode, widthRange, heightRange>>

\* enumerateDevices() of fetch f rejects, or reading the capabilities throws
\* (deviceInfo instanceof InputDeviceInfo where InputDeviceInfo is not defined).
FetchEnumReject(f, e) ==
    /\ fetches[f].pc = "enum"
    /\ error' = Caught(e, error)
    /\ loadingDevices' = (IF variant = "basic" THEN loadingDevices ELSE FALSE)
    /\ fetches' = [fetches EXCEPT ![f].pc = "failed"]
    /\ UNCHANGED <<variant, apiPresent, readoutVars, selectionVars, deviceDetails, videoDevices,
                   audioDevices, sessionVars>>

\* ------------------------------------------------------------ the selections
\* handleVideoDeviceChange ("basic": handleDeviceChange) and the effects on
\* selectedVideoDevice.
SelectVideoDevice(d) ==
    /\ d # selectedVideoDevice
    /\ d \in Ids(videoDevices) \cup (IF variant = "basic" THEN {} ELSE {""})
    /\ selectedVideoDevice' = d
    /\ IF variant = "basic"
       THEN stopStream
       ELSE UNCHANGED <<stopReturn, streams, srcObject, actualDeviceId, deviceIdMatch>>
    /\ IF variant = "cap"
       THEN LET e == CapabilityEffect(d, deviceDetails,
                                      activeConstraintKeys, customConstraints)
            IN activeConstraintKeys' = e.keys /\ customConstraints' = e.custom
       ELSE UNCHANGED <<activeConstraintKeys, customConstraints>>
    /\ IF variant = "range"
       THEN LET u == updateDeviceCapabilitiesOptions(d, deviceDetails, facingMode)
            IN /\ availableFacingModes' = u.modes
               /\ facingMode' = u.facingMode
               /\ widthRange' = u.widthRange
               /\ heightRange' = u.heightRange
       ELSE UNCHANGED <<availableFacingModes, facingMode, widthRange, heightRange>>
    /\ UNCHANGED <<variant, apiPresent, readoutVars, deviceVars, error, starts, requestedConstraints,
                   stopRun, resolution, useMaxResolution, maxResolution,
                   useMinResolution, minResolution, selectedAudioDevice,
                   useExactDeviceId, useExactAudioDeviceId>>

\* setSelectedAudioDevice(e.currentTarget.value)
SelectAudioDevice(d) ==
    /\ variant # "basic"
    /\ d # selectedAudioDevice
    /\ d \in Ids(audioDevices) \cup {""}
    /\ selectedAudioDevice' = d
    /\ UNCHANGED <<variant, apiPresent, readoutVars, deviceVars, sessionVars, error, resolution,
                   useMaxResolution, maxResolution, useMinResolution, minResolution,
                   facingMode, availableFacingModes, widthRange, heightRange,
                   selectedVideoDevice, useExactDeviceId, useExactAudioDeviceId,
                   customConstraints, activeConstraintKeys>>

\* "cap": the checkbox shown under the camera select while a camera is selected.
SetUseExactDeviceId(b) ==
    /\ variant = "cap"
    /\ selectedVideoDevice # ""
    /\ b # useExactDeviceId
    /\ useExactDeviceId' = b
    /\ UNCHANGED <<variant, apiPresent, readoutVars, deviceVars, sessionVars, error, resolution,
                   useMaxResolution, maxResolution, useMinResolution, minResolution,
                   facingMode, availableFacingModes, widthRange, heightRange,
                   selectedVideoDevice, selectedAudioDevice, useExactAudioDeviceId,
                   customConstraints, activeConstraintKeys>>

\* The options of the facing mode select.
FacingModeOptions ==
    IF variant = "static" THEN {"", "user", "environment"}
    ELSE IF variant = "range" /\ Len(availableFacingModes) > 0
    THEN {""} \cup SeqToSet(availableFacingModes)
    ELSE {}

\* setFacingMode(e.currentTarget.value)
SetFacingMode(m) ==
    /\ m \in FacingModeOptions
    /\ m # facingMode
    /\ facingMode' = m
    /\ UNCHANGED <<variant, apiPresent, readoutVars, deviceVars, sessionVars, error, resolution,
                   useMaxResolution, maxResolution, useMinResolution, minResolution,
                   availableFacingModes, widthRange, heightRange,
                   selectedVideoDevice, selectedAudioDevice, useExactDeviceId,
                   useExactAudioDeviceId, customConstraints, activeConstraintKeys>>

\* <option value="640x480">, "1280x720", "1920x1080": value.split("x").map(Number)
ResolutionOptions ==
    { [width |-> DefaultWidth, height |-> DefaultHeight],
      [width |-> 1280, height |-> 720],
      [width |-> 1920, height |-> 1080] }

\* What the user types into a text input, and Number(e.target.value) of it.
TextInputs == {"320"}
ToNumber(text) ==
    CASE text = "" -> 0
      [] text = "320" -> 320
      [] OTHER -> NaN

\* The resolution select ("basic": handleResolutionChange, which also stops).
\* The select fires when the option changes; a change back to the option whose
\* numbers the text inputs have since overwritten is taken with the others.
SetResolution(r) ==
    /\ variant # "cap"
    /\ r \in ResolutionOptions
    /\ r # resolution
    /\ resolution' = r
    /\ IF variant = "basic"
       THEN stopStream
       ELSE UNCHANGED <<stopReturn, streams, srcObject, actualDeviceId, deviceIdMatch>>
    /\ UNCHANGED <<variant, apiPresent, readoutVars, deviceVars, error, starts, requestedConstraints,
                   stopRun, useMaxResolution, maxResolution, useMinResolution,
                   minResolution, facingMode, availableFacingModes, widthRange,
                   heightRange, selectedVideoDevice, selectedAudioDevice,
                   useExactDeviceId, useExactAudioDeviceId, customConstraints,
                   activeConstraintKeys>>

\* The two Custom Resolution text inputs.
SetResolutionField(field, text) ==
    /\ variant # "cap"
    /\ field \in {"width", "height"}
    /\ resolution' = [resolution EXCEPT ![field] = ToNumber(text)]
    /\ UNCHANGED <<variant, apiPresent, readoutVars, deviceVars, sessionVars, error,
                   useMaxResolution, maxResolution, useMinResolution, minResolution,
                   facingMode, availableFacingModes, widthRange, heightRange,
                   selectedVideoDevice, selectedAudioDevice, useExactDeviceId,
                   useExactAudioDeviceId, customConstraints, activeConstraintKeys>>

\* "range": widthRange.max && heightRange.max (.min likewise)
RangeEnds(key) ==
    IF Has(widthRange, key) /\ Has(heightRange, key)
       /\ widthRange[key] # 0 /\ heightRange[key] # 0
    THEN [found |-> TRUE, value |-> [width |-> widthRange[key], height |-> heightRange[key]]]
    ELSE [found |-> FALSE, value |-> [width |-> 0, height |-> 0]]

\* The Use Max Resolution checkbox.
SetUseMaxResolution(b) ==
    /\ variant # "cap"
    /\ b # useMaxResolution
    /\ useMaxResolution' = b
    /\ resolution' = IF variant = "basic" /\ b THEN maxResolution ELSE resolution
    /\ maxResolution' = IF variant = "range" /\ b /\ RangeEnds("max").found
                        THEN RangeEnds("max").value ELSE maxResolution
    /\ UNCHANGED <<variant, apiPresent, readoutVars, deviceVars, sessionVars, error,
                   useMinResolution, minResolution,
                   facingMode, availableFacingModes, widthRange, heightRange,
                   selectedVideoDevice, selectedAudioDevice, useExactDeviceId,
                   useExactAudioDeviceId, customConstraints, activeConstraintKeys>>

\* The Use Min Resolution checkbox.
SetUseMinResolution(b) ==
    /\ variant # "cap"
    /\ b # useMinResolution
    /\ useMinResolution' = b
    /\ resolution' = IF variant = "basic" /\ b THEN minResolution ELSE resolution
    /\ minResolution' = IF variant = "range" /\ b /\ RangeEnds("min").found
                        THEN RangeEnds("min").value ELSE minResolution
    /\ UNCHANGED <<variant, apiPresent, readoutVars, deviceVars, sessionVars, error,
                   useMaxResolution, maxResolution,
                   facingMode, availableFacingModes, widthRange, heightRange,
                   selectedVideoDevice, selectedAudioDevice, useExactDeviceId,
                   useExactAudioDeviceId, customConstraints, activeConstraintKeys>>

\* The two text inputs of the max bound, usable while its checkbox is on.
SetMaxResolutionField(field, text) ==
    /\ variant # "cap"
    /\ useMaxResolution
    /\ field \in {"width", "height"}
    /\ maxResolution' = [maxResolution EXCEPT ![field] = ToNumber(text)]
    /\ UNCHANGED <<variant, apiPresent, readoutVars, deviceVars, sessionVars, error, resolution, useMaxResolution, useMinResolution, minResolution,
                   facingMode, availableFacingModes, widthRange, heightRange,
                   selectedVideoDevice, selectedAudioDevice, useExactDeviceId,
                   useExactAudioDeviceId, customConstraints, activeConstraintKeys>>

\* The two text inputs of the min bound, usable while its checkbox is on.
SetMinResolutionField(field, text) ==
    /\ variant # "cap"
    /\ useMinResolution
    /\ field \in {"width", "height"}
    /\ minResolution' = [minResolution EXCEPT ![field] = ToNumber(text)]
    /\ UNCHANGED <<variant, apiPresent, readoutVars, deviceVars, sessionVars, error, resolution, useMaxResolution, maxResolution, useMinResolution,
                   facingMode, availableFacingModes, widthRange, heightRange,
                   selectedVideoDevice, selectedAudioDevice, useExactDeviceId,
                   useExactAudioDeviceId, customConstraints, activeConstraintKeys>>

\* "cap": the keys whose capability is rendered as a control: the active keys
\* for which currentCapabilities has a value.
RenderedKeys ==
    LET capabilities == DeviceCapabilities(deviceDetails, selectedVideoDevice)
    IN IF selectedVideoDevice = "" \/ ~capabilities.found THEN {}
       ELSE {k \in SeqToSet(activeConstraintKeys) : Has(capabilities.caps, k)}

\* "cap": the capability value currentCapabilities holds for a rendered key.
CapValue(key) == DeviceCapabilities(deviceDetails, selectedVideoDevice).caps[key]

\* Array.isArray(capValue): facingMode is the one list among the capabilities.
IsListKey(key) == key = "facingMode"

\* const newConstraints = { ...customConstraints }; delete newConstraints[key]
RemoveKey(obj, key) == [k \in DOMAIN obj \ {key} |-> obj[k]]

\* "cap": customConstraints after the effect that follows an edit of key: the
\* effect runs when customConstraints.width or customConstraints.height is
\* another object than before.
AfterEdit(key, custom) ==
    IF key \in {"width", "height"}
    THEN CapabilityEffect(selectedVideoDevice, deviceDetails, activeConstraintKeys, custom)
    ELSE [keys |-> activeConstraintKeys, custom |-> custom]

\* "cap": click on the enable checkbox of a capability key.
SetConstraintEnabled(key, checked) ==
    /\ variant = "cap"
    /\ key \in RenderedKeys
    /\ checked # Has(customConstraints, key)
    /\ LET edited ==
               IF ~checked THEN RemoveKey(customConstraints, key)
               ELSE IF IsListKey(key)
               THEN (IF Len(CapValue(key)) > 0
                     THEN (key :> [ideal |-> CapValue(key)[1]]) @@ customConstraints
                     ELSE customConstraints)
               ELSE (key :> [ideal |-> IF Has(CapValue(key), "min")
                                       THEN CapValue(key).min ELSE 0])
                        @@ customConstraints
           e == AfterEdit(key, edited)
       IN activeConstraintKeys' = e.keys /\ customConstraints' = e.custom
    /\ UNCHANGED <<variant, apiPresent, readoutVars, deviceVars, sessionVars, error,
                   resolution, useMaxResolution, maxResolution, useMinResolution,
                   minResolution, facingMode, availableFacingModes, widthRange,
                   heightRange, selectedVideoDevice, selectedAudioDevice,
                   useExactDeviceId, useExactAudioDeviceId>>

\* The values the range input of a key is moved to.
IdealInputs(key) ==
    CASE key = "width" -> {1280}
      [] key = "height" -> {720}
      [] OTHER -> {30}

\* "cap": the range input of a capability key is moved to value.
SetConstraintIdeal(key, value) ==
    /\ variant = "cap"
    /\ key \in RenderedKeys
    /\ ~IsListKey(key)
    /\ Has(customConstraints, key)
    /\ value \in IdealInputs(key)
    /\ ~(Has(customConstraints[key], "ideal") /\ customConstraints[key].ideal = value)
    /\ LET edited == (key :> ([ideal |-> value] @@ customConstraints[key]))
                         @@ customConstraints
           e == AfterEdit(key, edited)
       IN activeConstraintKeys' = e.keys /\ customConstraints' = e.custom
    /\ UNCHANGED <<variant, apiPresent, readoutVars, deviceVars, sessionVars, error,
                   resolution, useMaxResolution, maxResolution, useMinResolution,
                   minResolution, facingMode, availableFacingModes, widthRange,
                   heightRange, selectedVideoDevice, selectedAudioDevice,
                   useExactDeviceId, useExactAudioDeviceId>>

\* ------------------------------------------------------------ specifications
Discovery ==
    \/ ReloadDevices
    \/ fetchDevicesOnce
    \/ \E f \in 1..Len(fetches) : FetchGumResolve(f)
    \/ \E f \in 1..Len(fetches), e \in Rejections : FetchGumReject(f, e)
    \/ \E f \in 1..Len(fetches), list \in Enumerations : FetchEnumResolve(f, list)
    \/ \E f \in 1..Len(fetches), e \in Rejections : FetchEnumReject(f, e)

Lifecycle ==
    \/ StartClick
    \/ Tick
    \/ \E i \in 1..Len(starts) : DelayElapsed(i)
    \/ \E i \in 1..Len(starts), d \in Cameras : AcquireResolve(i, d)
    \/ \E i \in 1..Len(starts), e \in Rejections : AcquireReject(i, e)
    \/ StopClick

DeviceSelections ==
    \/ \E d \in Cameras \cup {""} : SelectVideoDevice(d)
    \/ \E d \in Microphones \cup {""} : SelectAudioDevice(d)
    \/ \E b \in BOOLEAN : SetUseExactDeviceId(b)

ConstraintSelections ==
    \/ \E m \in {"", "user", "environment"} : SetFacingMode(m)
    \/ \E r \in ResolutionOptions : SetResolution(r)
    \/ \E field \in {"width", "height"}, text \in TextInputs : SetResolutionField(field, text)
    \/ \E b \in BOOLEAN : SetUseMaxResolution(b)
    \/ \E b \in BOOLEAN : SetUseMinResolution(b)
    \/ \E field \in {"width", "height"}, text \in TextInputs : SetMaxResolutionField(field, text)
    \/ \E field \in {"width", "height"}, text \in TextInputs : SetMinResolutionField(field, text)

\* The discovery steps in which no platform promise rejects.
DiscoveryGranted ==
    \/ ReloadDevices
    \/ fetchDevicesOnce
    \/ \E f \in 1..Len(fetches) : FetchGumResolve(f)
    \/ \E f \in 1..Len(fetches), list \in Enumerations : FetchEnumResolve(f, list)

\* The capture session on its own: Start and Stop clicks in any order and the
\* continuations of the startStream calls, with the selections as mounted.
Next == Lifecycle

Spec == Init /\ [][Next]_vars

\* The way to the first request: devices are discovered, the selections are
\* edited in any order, and Start Camera is clicked once from Idle.
InitBuild == Init /\ apiPresent

NextBuild ==
    \/ starts = <<>> /\ Len(fetches) < MaxConfigFetches /\ ReloadDevices
    \/ starts = <<>> /\ Len(fetches) < MaxConfigFetches /\ fetchDevicesOnce
    \/ starts = <<>> /\ \E f \in 1..Len(fetches) : FetchGumResolve(f)
    \/ starts = <<>> /\ \E f \in 1..Len(fetches), list \in Enumerations :
                            FetchEnumResolve(f, list)
    \/ starts = <<>> /\ \E d \in Cameras \cup {""} : SelectVideoDevice(d)
    \/ starts = <<>> /\ \E b \in BOOLEAN : SetUseExactDeviceId(b)
    \/ starts = <<>> /\ \E m \in {"", "user", "environment"} : SetFacingMode(m)
    \/ starts = <<>> /\ \E r \in ResolutionOptions : SetResolution(r)
    \/ starts = <<>> /\ \E field \in {"width", "height"}, text \in TextInputs :
                            SetResolutionField(field, text)
    \/ starts = <<>> /\ \E b \in BOOLEAN : SetUseMaxResolution(b)
    \/ starts = <<>> /\ \E b \in BOOLEAN : SetUseMinResolution(b)
    \/ starts = <<>> /\ \E field \in {"width", "height"}, text \in TextInputs :
                            SetMaxResolutionField(field, text)
    \/ starts = <<>> /\ \E field \in {"width", "height"}, text \in TextInputs :
                            SetMinResolutionField(field, text)
    \/ starts = <<>> /\ StartClick

SpecBuild == InitBuild /\ [][NextBuild]_vars

\* The lifecycle with a platform that answers: a settling timer that is
\* pending fires, and a getUserMedia call that is pending resolves or rejects.
Fairness ==
    /\ WF_vars(Tick)
    /\ \A i \in 1..MaxStarts :
           /\ WF_vars(i <= Len(starts) /\ DelayElapsed(i))
           /\ WF_vars(/\ i <= Len(starts)
                      /\ \/ \E d \in Cameras : AcquireResolve(i, d)
                         \/ \E e \in Rejections : AcquireReject(i, e))

SpecFair == Init /\ [][Next]_vars /\ Fairness

\* "cap": the capture session of a camera selection. The devices are
\* discovered and the camera is selected before the first Start click. An
\* acquisition that fails is one the user denies.
InitIdentity == Init /\ apiPresent /\ variant = "cap"

NextIdentity ==
    \/ starts = <<>> /\ Len(fetches) < MaxConfigFetches /\ ReloadDevices
    \/ starts = <<>> /\ Len(fetches) < MaxConfigFetches /\ fetchDevicesOnce
    \/ starts = <<>> /\ \E f \in 1..Len(fetches) : FetchGumResolve(f)
    \/ starts = <<>> /\ \E f \in 1..Len(fetches), list \in Enumerations :
                            FetchEnumResolve(f, list)
    \/ starts = <<>> /\ \E d \in Cameras \cup {""} : SelectVideoDevice(d)
    \/ starts = <<>> /\ \E b \in BOOLEAN : SetUseExactDeviceId(b)
    \/ Len(starts) < MaxIdentityStarts /\ StartClick
    \/ Tick
    \/ \E i \in 1..Len(starts) : DelayElapsed(i)
    \/ \E i \in 1..Len(starts), d \in Cameras : AcquireResolve(i, d)
    \/ \E i \in 1..Len(starts) : AcquireReject(i, PermissionDenied)
    \/ StopClick

SpecIdentity == InitIdentity /\ [][NextIdentity]_vars

\* Device discovery on its own: Reload Devices and clicks on the device
\* selects in any order, the platform granting or rejecting each promise, and
\* the device selections.
NextDiscovery ==
    \/ ReloadDevices
    \/ fetchDevicesOnce
    \/ \E f \in 1..Len(fetches) : FetchGumResolve(f)
    \/ \E f \in 1..Len(fetches), e \in Rejections : FetchGumReject(f, e)
    \/ \E f \in 1..Len(fetches), list \in Enumerations : FetchEnumResolve(f, list)
    \/ \E f \in 1..Len(fetches), e \in Rejections : FetchEnumReject(f, e)
    \/ \E d \in Cameras \cup {""} : SelectVideoDevice(d)
    \/ \E d \in Microphones \cup {""} : SelectAudioDevice(d)

SpecDiscovery == Init /\ [][NextDiscovery]_vars

\* The selections edited while a startStream call is on its way: the devices
\* are discovered before the first Start click, the camera and the resolution
\* are changed at any moment.
InitReselect == Init /\ apiPresent

NextReselect ==
    \/ starts = <<>> /\ Len(fetches) < MaxConfigFetches /\ ReloadDevices
    \/ starts = <<>> /\ \E f \in 1..Len(fetches) : FetchGumResolve(f)
    \/ starts = <<>> /\ \E f \in 1..Len(fetches), list \in Enumerations :
                            FetchEnumResolve(f, list)
    \/ \E d \in Cameras \cup {""} : SelectVideoDevice(d)
    \/ \E r \in ResolutionOptions : SetResolution(r)
    \/ Len(starts) < MaxReselectStarts /\ StartClick
    \/ Tick
    \/ \E i \in 1..Len(starts) : DelayElapsed(i)
    \/ \E i \in 1..Len(starts), d \in Cameras : AcquireResolve(i, d)

SpecReselect == InitReselect /\ [][NextReselect]_vars

\* What a session leaves on display: the devices are discovered, one run at a
\* time, and the microphone is selected before the first Start click; the
\* camera stays the default one, which the platform delivers; then the capture
\* sessions, with playback beginning on the sink.
InitReadout == Init /\ apiPresent

NextReadout ==
    \/ starts = <<>> /\ ~loadingDevices /\ Len(fetches) < MaxConfigFetches /\ ReloadDevices
    \/ starts = <<>> /\ \E f \in 1..Len(fetches) : FetchGumResolve(f)
    \/ starts = <<>> /\ \E f \in 1..Len(fetches), list \in Enumerations :
                            FetchEnumResolve(f, list)
    \/ starts = <<>> /\ \E d \in Microphones \cup {""} : SelectAudioDevice(d)
    \/ Len(starts) < MaxReadoutStarts /\ StartClick
    \/ Tick
    \/ \E i \in 1..Len(starts) : DelayElapsed(i)
    \/ \E i \in 1..Len(starts) : AcquireResolve(i, "cam1")
    \/ StopClick
    \/ \E size \in FrameSizes : Play(size)

SpecReadout == InitReadout /\ [][NextReadout]_vars

\* "cap": the custom constraints edited for a selected camera: the devices are
\* discovered, a camera is selected, its capability controls are used, and
\* Start Camera is clicked.
InitCustom == Init /\ apiPresent /\ variant = "cap"

NextCustom ==
    \/ Len(fetches) < MaxConfigFetches /\ ReloadDevices
    \/ \E f \in 1..Len(fetches) : FetchGumResolve(f)
    \/ \E f \in 1..Len(fetches), list \in Enumerations : FetchEnumResolve(f, list)
    \/ \E d \in Cameras \cup {""} : SelectVideoDevice(d)
    \/ \E key \in SeqToSet(CapKeyOrder), checked \in BOOLEAN :
           SetConstraintEnabled(key, checked)
    \/ \E key \in SeqToSet(CapKeyOrder) : \E value \in IdealInputs(key) :
           SetConstraintIdeal(key, value)
    \/ Len(starts) < MaxCustomStarts /\ StartClick

SpecCustom == InitCustom /\ [][NextCustom]_vars

\* "range": the facing mode across device selections and reloads.
InitFacing == Init /\ apiPresent /\ variant = "range"

NextFacing ==
    \/ ReloadDevices
    \/ \E f \in 1..Len(fetches) : FetchGumResolve(f)
    \/ \E f \in 1..Len(fetches), list \in Enumerations : FetchEnumResolve(f, list)
    \/ \E f \in 1..Len(fetches), e \in Rejections : FetchEnumReject(f, e)
    \/ \E d \in Cameras \cup {""} : SelectVideoDevice(d)
    \/ \E m \in {"", "user", "environment"} : SetFacingMode(m)

SpecFacing == InitFacing /\ [][NextFacing]_vars

\* ------------------------------------------------------------ the properties
\* The streams a startStream call acquired that still have a live track.
LiveAcquired ==
    {k \in 1..Len(streams) : streams[k].owner = "start" /\ streams[k].live # {}}

\* The startStream calls that return in the step, in failure or at all.
Returning(i) ==
    /\ i \in 1..Len(starts')
    /\ starts'[i].pc = "done"
    /\ (i > Len(starts) \/ starts[i].pc # "done")

Failing(i) == Returning(i) /\ starts'[i].outcome # "bound"

\* C1: at any moment at most one acquired stream has live tracks, and while a
\* stream is bound to the sink every track of every stream bound before it has
\* been stopped, whatever the order of the Start and Stop clicks and of the
\* continuations of overlapping startStream calls.
ExclusiveStream ==
    /\ Cardinality(LiveAcquired) <= 1
    /\ srcObject # 0 => LiveAcquired \subseteq {srcObject}

\* C2: a startStream call made while a stream was bound has the tracks of that
\* stream stopped while it waits the settling delay, and its acquisition
\* request is out only with those tracks stopped and the full delay waited.
StopDelayAcquire ==
    \A i \in 1..Len(starts) :
        starts[i].prior # 0 =>
            /\ starts[i].pc = "delay" => streams[starts[i].prior].live = {}
            /\ starts[i].pc = "acquiring" =>
                  /\ streams[starts[i].prior].live = {}
                  /\ starts[i].elapsed >= SettleDelay

StopClears ==
    [][srcObject # 0 /\ (StopClick \/ StartClick) =>
          /\ streams'[srcObject].live = {}
          /\ srcObject' = 0
          /\ actualDeviceId' = Null
          /\ deviceIdMatch' = Null]_vars

\* A Stop click has torn down the stream of a selected camera, for which the
\* identity state was set.
StopClearsReached ==
    /\ variant = "cap"
    /\ selectedVideoDevice # ""
    /\ stopRun = <<"true">>
    /\ srcObject = 0
    /\ actualDeviceId = Null
    /\ deviceIdMatch = Null
    /\ \E i \in 1..Len(starts) :
          /\ starts[i].outcome = "bound"
          /\ streams[starts[i].stream].live = {}

\* The startStream calls that were in flight at a Stop click and have bound
\* their stream, which still has a live track.
BoundAfterStop ==
    {i \in 1..Len(starts) :
        /\ starts[i].stopSeen
        /\ starts[i].outcome = "bound"
        /\ streams[starts[i].stream].live # {}}

\* C5 ("cap"): a Stop click leaves every startStream call in flight where it
\* is; such a call, when its acquisition resolves, binds the stream to the
\* sink; and the next Stop click after that finds that stream bound and tears
\* down that stream and no other.
StopDoesNotCancel ==
    [][variant = "cap" =>
          /\ StopClick =>
                \A i \in 1..Len(starts) :
                    starts[i].pc # "done" =>
                        /\ starts'[i].pc = starts[i].pc
                        /\ starts'[i].req = starts[i].req
                        /\ starts'[i].elapsed = starts[i].elapsed
          /\ \A i \in 1..Len(starts) :
                Returning(i) /\ starts[i].stopSeen /\ starts'[i].outcome = "bound" =>
                    /\ srcObject' = starts'[i].stream
                    /\ streams'[srcObject'].live # {}
          /\ StopClick =>
                \A i \in BoundAfterStop :
                    /\ srcObject = starts[i].stream
                    /\ streams'[starts[i].stream].live = {}
                    /\ \A k \in 1..Len(streams) :
                          k # starts[i].stream => streams'[k] = streams[k]]_vars

\* C6: in the step in which a startStream call returns in failure (the capture
\* API is absent, or its acquisition rejected), the error state is set to a
\* message that is not empty and no stream is bound to the sink.
StartFailureSurfaced ==
    [][\A i \in 1..Len(starts') :
          Failing(i) => error' # "" /\ srcObject' = 0]_vars

\* C7 ("cap"): in the step in which a startStream call that tore a session
\* down returns in failure, no stream is bound to the sink, the tracks of the
\* stream it tore down are stopped, and no startStream call is added.
FailedRestartIdle ==
    [][variant = "cap" =>
          \A i \in 1..Len(starts) :
              Failing(i) /\ starts[i].stopped =>
                  /\ srcObject' = 0
                  /\ streams'[starts[i].prior].live = {}
                  /\ Len(starts') = Len(starts)]_vars

\* The startStream calls whose acquisition request is out.
Requesting == {i \in 1..Len(starts) : starts[i].pc = "acquiring"}

\* C8 (the revisions with the bound toggles): a request built with neither
\* toggle on carries as width and height the bare numbers of the chosen
\* resolution, which the platform takes as ideal values, and no range object.
ScalarIdeal ==
    \A i \in Requesting :
        LET c == starts[i].closure
            video == starts[i].req.video
        IN variant # "cap" /\ ~c.useMaxResolution /\ ~c.useMinResolution =>
               /\ video.width = Bare(c.resolution.width)
               /\ video.height = Bare(c.resolution.height)

\* A request for a resolution whose width and height differ, no toggle on.
ScalarIdealReached ==
    \E i \in Requesting :
        /\ variant # "cap"
        /\ ~starts[i].closure.useMaxResolution
        /\ ~starts[i].closure.useMinResolution
        /\ starts[i].closure.resolution = [width |-> 1280, height |-> 720]
        /\ starts[i].req.video.width = Bare(1280)

\* The keys a ranged width or height has to carry for the toggles of closure c.
RangeKeys(c) ==
    {"ideal"} \cup (IF c.useMaxResolution THEN {"max"} ELSE {})
              \cup (IF c.useMinResolution THEN {"min"} ELSE {})

\* C9 (the revisions with the bound toggles): a request built with a toggle on
\* carries width and height as objects whose ideal is the chosen resolution,
\* with max (the max bound) exactly when the max toggle is on and min (the min
\* bound) exactly when the min toggle is on.
RangedBounds ==
    \A i \in Requesting :
        LET c == starts[i].closure
            video == starts[i].req.video
        IN variant # "cap" /\ (c.useMaxResolution \/ c.useMinResolution) =>
               /\ DOMAIN video.width = RangeKeys(c)
               /\ DOMAIN video.height = RangeKeys(c)
               /\ video.width.ideal = c.resolution.width
               /\ video.height.ideal = c.resolution.height
               /\ c.useMaxResolution =>
                     /\ video.width.max = c.maxResolution.width
                     /\ video.height.max = c.maxResolution.height
               /\ c.useMinResolution =>
                     /\ video.width.min = c.minResolution.width
                     /\ video.height.min = c.minResolution.height

\* A request with the max toggle on and the min toggle off, and one bound typed.
RangedBoundsReached ==
    \E i \in Requesting :
        /\ variant # "cap"
        /\ starts[i].closure.useMaxResolution
        /\ ~starts[i].closure.useMinResolution
        /\ starts[i].closure.maxResolution.width = 320
        /\ DOMAIN starts[i].req.video.width = {"ideal", "max"}
        /\ starts[i].req.video.width.max = 320

\* The facing mode selected in closure c: the facingMode state, in "cap" the
\* value of the facingMode entry of customConstraints.
SelectedFacingMode(c) ==
    IF variant # "cap" THEN c.facingMode
    ELSE IF ~Has(c.customConstraints, "facingMode") THEN ""
    ELSE IF Has(c.customConstraints.facingMode, "ideal")
         THEN c.customConstraints.facingMode.ideal
    ELSE IF Has(c.customConstraints.facingMode, "exact")
         THEN c.customConstraints.facingMode.exact
    ELSE ""

\* The facing modes the camera selected in closure c advertises: those of the
\* capabilities read at discovery, in "static", which reads none, those of the
\* hardware.
AdvertisedFacingModes(c) ==
    LET known == DeviceCapabilities(c.deviceDetails, c.selectedVideoDevice)
    IN IF c.selectedVideoDevice = "" THEN {}
       ELSE IF variant = "static"
       THEN SeqToSet(HardwareCaps(c.selectedVideoDevice).facingMode)
       ELSE IF known.found /\ Has(known.caps, "facingMode")
       THEN SeqToSet(known.caps.facingMode)
       ELSE {}

\* C10: the video constraints of a request carry facingMode exactly when the
\* selected facing mode is not empty and is one of the facing modes the
\* selected camera advertises.
FacingModeIffAdvertised ==
    \A i \in Requesting :
        LET c == starts[i].closure
        IN Has(VideoOf(starts[i].req), "facingMode") <=>
               (SelectedFacingMode(c) # "" /\ SelectedFacingMode(c) \in AdvertisedFacingModes(c))

\* C11: where the video constraints of a request carry facingMode, it is an
\* object with the key exact, not a bare value and not an ideal.
FacingModeExact ==
    \A i \in Requesting :
        LET video == VideoOf(starts[i].req)
        IN Has(video, "facingMode") => Has(video.facingMode, "exact")

\* The capability keys the camera selected in closure c advertises, as read at
\* discovery.
AdvertisedKeys(c) ==
    LET known == DeviceCapabilities(c.deviceDetails, c.selectedVideoDevice)
    IN IF known.found THEN DOMAIN known.caps ELSE {}

\* C13 ("cap"): every key of the video constraints of a request other than
\* deviceId is a capability key of the camera selected at the Start click; with
\* the camera deselected no key of the camera selected before is left.
OnlyAdvertisedKeys ==
    \A i \in Requesting :
        variant = "cap" =>
            (DOMAIN VideoOf(starts[i].req)) \ {"deviceId"}
                \subseteq AdvertisedKeys(starts[i].closure)

\* C14 ("cap"): the video constraints of a request carry the id of the selected
\* camera as deviceId { exact } while useExactDeviceId is on and as { ideal }
\* while it is off, and no deviceId with no camera selected.
DeviceIdByToggle ==
    \A i \in Requesting :
        LET c == starts[i].closure
            video == VideoOf(starts[i].req)
        IN variant = "cap" =>
               /\ c.selectedVideoDevice = "" => ~Has(video, "deviceId")
               /\ c.selectedVideoDevice # "" /\ c.useExactDeviceId =>
                     /\ Has(video, "deviceId")
                     /\ video.deviceId = [exact |-> c.selectedVideoDevice]
               /\ c.selectedVideoDevice # "" /\ ~c.useExactDeviceId =>
                     /\ Has(video, "deviceId")
                     /\ video.deviceId = [ideal |-> c.selectedVideoDevice]

\* A request for a selected camera with the exact toggle switched off.
DeviceIdByToggleReached ==
    \E i \in Requesting :
        /\ variant = "cap"
        /\ starts[i].closure.selectedVideoDevice = "cam1"
        /\ ~starts[i].closure.useExactDeviceId
        /\ starts[i].req.video.deviceId = [ideal |-> "cam1"]

\* The resolution chosen in closure c: the resolution state, in "cap" the
\* ideal values of the width and height entries of customConstraints.
ChosenResolution(c) ==
    IF variant # "cap" THEN c.resolution
    ELSE [width |-> IF Has(c.customConstraints, "width")
                       /\ Has(c.customConstraints.width, "ideal")
                    THEN c.customConstraints.width.ideal ELSE NaN,
          height |-> IF Has(c.customConstraints, "height")
                        /\ Has(c.customConstraints.height, "ideal")
                     THEN c.customConstraints.height.ideal ELSE NaN]

\* The constraints video carry v as the ideal of key: bare, or as { ideal: v }.
CarriesIdeal(video, key, v) ==
    /\ Has(video, key)
    /\ (video[key] = Bare(v) \/ video[key] = [ideal |-> v])

\* C15: a request built with no camera selected and no bound toggle on still
\* carries the chosen resolution as the ideal width and the ideal height.
ResolutionWithoutDevice ==
    \A i \in Requesting :
        LET c == starts[i].closure
            video == VideoOf(starts[i].req)
        IN c.selectedVideoDevice = "" /\ ~c.useMaxResolution /\ ~c.useMinResolution =>
               /\ CarriesIdeal(video, "width", ChosenResolution(c).width)
               /\ CarriesIdeal(video, "height", ChosenResolution(c).height)

\* C12: when a startStream call of the capability-driven revision binds its
\* stream, the match flag it stores is null if no camera was selected when
\* Start was clicked, true if the selected camera is the one the settings of
\* the video track report, and false if they differ.
MatchFlagRecorded ==
    [][\A i \in 1..Len(starts) :
          (variant = "cap" /\ Returning(i) /\ starts'[i].outcome = "bound") =>
              LET selected == starts[i].closure.selectedVideoDevice
              IN deviceIdMatch' = IF selected = "" THEN Null
                                  ELSE IF selected = actualDeviceId' THEN "true"
                                  ELSE "false"]_vars

\* A stream is bound that a camera other than the selected one delivers.
MatchFlagRecordedReached ==
    /\ variant = "cap"
    /\ srcObject # 0
    /\ selectedVideoDevice # ""
    /\ actualDeviceId # selectedVideoDevice
    /\ deviceIdMatch = "false"

\* C17: a startStream call waits the settling delay exactly if the stopStream
\* it makes tore a session down: clicked with nothing bound it has its request
\* out at once, clicked with a stream bound it waits the delay, and a request
\* is out after the full delay or after no delay at all.
DelayIffTornDown ==
    /\ [][(apiPresent /\ Len(starts') = Len(starts) + 1) =>
             LET start == starts'[Len(starts')]
             IN /\ start.pc = "delay" <=> (srcObject # 0 /\ srcObject' = 0)
                /\ srcObject = 0 => start.pc = "acquiring" /\ start.elapsed = 0
                /\ srcObject # 0 => start.pc = "delay"]_vars
    /\ [](\A i \in 1..Len(starts) :
             starts[i].pc = "acquiring" =>
                 /\ starts[i].elapsed \in {0, SettleDelay}
                 /\ starts[i].elapsed = SettleDelay <=> starts[i].prior # 0)

\* C16: the request a startStream call submits is the construction applied to
\* the selections in force in the step in which the request goes out, which is
\* after the settling delay when the call waits one: a selection changed during
\* the delay is in the request.
RequestFromCurrentSelections ==
    [][\A i \in 1..Len(starts') :
          (/\ starts'[i].pc = "acquiring"
           /\ (i > Len(starts) \/ starts[i].pc # "acquiring")) =>
              starts'[i].req = BuildRequest(variant, Closure')]_vars

\* A fetchDevices call ends in its catch block in this step.
FailingFetch(f) ==
    /\ f \in 1..Len(fetches')
    /\ fetches'[f].pc = "failed"
    /\ (f > Len(fetches) \/ fetches[f].pc # "failed")

\* C18: when a fetchDevices call fails, at the permission request or at the
\* enumeration, an error message is on display afterwards and the lists of
\* video devices, audio devices and device details are what they were.
DiscoveryFailureSurfaced ==
    [][\A f \in 1..Len(fetches') :
          FailingFetch(f) =>
              /\ error' # ""
              /\ UNCHANGED <<videoDevices, audioDevices, deviceDetails>>]_vars

\* C19: the tracks of the permission stream of a fetchDevices call are live
\* while enumerateDevices is pending and all stopped in the step that
\* publishes the device lists.
ReleaseAfterEnumeration ==
    [][\A f \in 1..Len(fetches) :
          /\ (fetches[f].pc = "gum" /\ fetches'[f].pc = "enum") =>
                 streams'[fetches'[f].stream].live = streams'[fetches'[f].stream].tracks
          /\ (fetches[f].pc = "enum" /\ fetches'[f].pc = "done"
                 /\ fetches[f].stream # 0) =>
                 streams'[fetches[f].stream].live = {}]_vars

\* Some device descriptor is in the state.
DescriptorsExist ==
    Len(videoDevices) > 0 \/ Len(audioDevices) > 0 \/ Len(deviceDetails) > 0

RecordedTracks ==
    IF trackCorrespondences = EmptyObj THEN {}
    ELSE {<<trackCorrespondences.stream, trackCorrespondences.kind>>}

\* C21: when a startStream call binds its stream, what trackCorrespondences
\* holds afterwards is one snapshot for each track of that stream and nothing
\* of an earlier stream.
SnapshotPerTrack ==
    [][\A i \in 1..Len(starts') :
          (variant # "basic" /\ Returning(i) /\ starts'[i].outcome = "bound") =>
              RecordedTracks' =
                  {<<starts'[i].stream, k>> : k \in streams'[starts'[i].stream].tracks}]_vars

\* C22: a play event on the sink stores the frame size of the sink as the
\* actual resolution and leaves the selections and the requested constraints
\* as they are, and nothing else writes the actual resolution.
PlayReadsFrameSize ==
    [][/\ \A size \in FrameSizes :
             Play(size) => /\ actualResolution' = size
                           /\ UNCHANGED <<selectionVars, requestedConstraints>>
       /\ actualResolution' # actualResolution => \E size \in FrameSizes : Play(size)]_vars

\* A stream is playing whose frames are not of the requested resolution.
PlayReadsFrameSizeReached ==
    /\ variant # "cap"
    /\ srcObject # 0
    /\ actualResolution.width # 0
    /\ actualResolution # resolution

\* C23 ("cap"): with no stream bound to the sink, actualDeviceId and
\* deviceIdMatch are null; one of them is set only while the sink holds a
\* stream that a startStream call acquired and bound.
IdentityOnlyWhileBound ==
    /\ srcObject = 0 => actualDeviceId = Null /\ deviceIdMatch = Null
    /\ (actualDeviceId # Null \/ deviceIdMatch # Null) =>
           /\ srcObject # 0
           /\ streams[srcObject].owner = "start"
           /\ \E i \in 1..Len(starts) :
                  starts[i].outcome = "bound" /\ starts[i].stream = srcObject

\* The identity state is set while the stream of the second startStream call
\* is bound, the first session having been torn down.
IdentityOnlyWhileBoundReached ==
    /\ variant = "cap"
    /\ srcObject # 0
    /\ actualDeviceId # Null
    /\ deviceIdMatch # Null
    /\ Len(starts) = 2
    /\ starts[2].outcome = "bound"
    /\ starts[2].stream = srcObject
    /\ starts[2].prior # 0

\* C24: a fetchDevices call that has finished, with the lists published or in
\* its catch block, has left no track of its permission stream live.
NoTransientTrackLeft ==
    \A f \in 1..Len(fetches) :
        (fetches[f].pc \in {"done", "failed"} /\ fetches[f].stream # 0) =>
            streams[fetches[f].stream].live = {}

\* The entry of a key is the same in two customConstraints objects.
SameEntry(before, after, key) ==
    /\ Has(after, key) = Has(before, key)
    /\ Has(before, key) => after[key] = before[key]

\* C25 ("cap"): moving the range input of width or height leaves the entry of
\* every other key of customConstraints as it was, set or not set.
EditKeepsOtherKeys ==
    [][\A key \in {"width", "height"} : \A value \in IdealInputs(key) :
          SetConstraintIdeal(key, value) =>
              \A other \in SeqToSet(CapKeyOrder) \ {key} :
                  SameEntry(customConstraints, customConstraints', other)]_vars

\* C26 ("cap"): unchecking the enable box of a key leaves customConstraints
\* without the key, and the request a Start click would build then has no
\* such key in its video part.
DisabledKeyAbsent ==
    [][\A key \in SeqToSet(CapKeyOrder) :
          SetConstraintEnabled(key, FALSE) =>
              /\ ~Has(customConstraints', key)
              /\ ~Has(VideoOf(BuildRequest(variant, Closure')), key)]_vars

\* The facing-mode list in the capabilities known for the selected camera.
KnownFacingModes ==
    LET known == DeviceCapabilities(deviceDetails, selectedVideoDevice)
    IN IF known.found /\ Has(known.caps, "facingMode") THEN known.caps.facingMode
       ELSE <<>>

\* C27 ("range"): after any device selections, reloads and facing-mode
\* selections, the selected facing mode is empty or one of availableFacingModes,
\* and availableFacingModes is the list the selected camera advertises, empty
\* with no camera selected or none advertised.
FacingModeAvailable ==
    variant = "range" =>
        /\ facingMode = "" \/ facingMode \in SeqToSet(availableFacingModes)
        /\ availableFacingModes = KnownFacingModes

\* After a reload, cam2 is selected with its facing mode chosen.
FacingModeAvailableReached ==
    /\ variant = "range"
    /\ Len(fetches) = 2
    /\ \A f \in 1..Len(fetches) : fetches[f].pc = "done"
    /\ selectedVideoDevice = "cam2"
    /\ availableFacingModes = <<"environment">>
    /\ facingMode = "environment"

\* The fetchDevices calls that await the platform.
FetchesInFlight == {f \in 1..Len(fetches) : fetches[f].pc \in {"gum", "enum"}}

\* C28: where the state has a loadingDevices flag, it is true exactly while
\* some fetchDevices call awaits the platform, also when two calls overlap.
LoadingWhileInFlight ==
    variant # "basic" => (loadingDevices <=> FetchesInFlight # {})

\* C29: once the error state holds a message it is never empty again,
\* whatever is done next.
ErrorNeverCleared ==
    [][error # "" => error' # ""]_vars

\* Every startStream call made returns.
StartTerminates ==
    \A i \in 1..MaxStarts :
        (Len(starts) >= i) ~> (Len(starts) >= i /\ starts[i].pc = "done")

\* C30: with a platform that answers, every startStream call returns, and in
\* the step in which it returns either its stream is bound to the sink or the
\* error state holds a message that is not empty.
StartEndsBoundOrError ==
    /\ StartTerminates
    /\ [][\A i \in 1..Len(starts') :
             Returning(i) =>
                 \/ starts'[i].outcome = "bound" /\ srcObject' = starts'[i].stream
                 \/ starts'[i].outcome # "bound" /\ error' # ""]_vars

====
